---- MODULE Spec2Model ----
(***************************************************************************)
(* A model of the SQL Server MCP server: the query_database row-limit gate *)
(* and the other tool handlers of main.py, its JSON-RPC dispatcher         *)
(* (mcp_handler), the DatabaseManager connection handling, and the         *)
(* QueryExecutor of database.py.                                           *)
(*                                                                         *)
(* Text that the code inspects character by character (SQL queries) is a   *)
(* sequence of one-character strings.  Python values that can be of any    *)
(* type (request fields, tool arguments, row values) are records tagged    *)
(* with their Python type in field t.  A Python call is an operator that   *)
(* returns an outcome: Ret(v) for "return v", Raise(e) for "raise e".      *)
(***************************************************************************)
EXTENDS Integers, Sequences, FiniteSets, TLC

VARIABLES
    pc,        \* "idle", "received", "responded"; for a direct call "start", "tool_done", "executor_done", "non_query_done"
    request,   \* the request (or the direct call's arguments) being served
    response,  \* what the dispatcher gave back to the transport: Ret(response) or Raise(exception); NoResponse before
    call,      \* the tool handler invocation made for this request: its tool, whether its arguments bound, its outcome
    conns,     \* every database connection opened so far, by id: "open" or "closed"
    dbLog,     \* what was done to the database while serving this request
    registry   \* the module-level dict MCP_TOOLS, as a list of its entries in order

vars == <<pc, request, response, call, conns, dbLog, registry>>

----------------------------------------------------------------------------
(* Bounds of the model. *)

\* The most connections the model lets the process open in one behaviour.
MaxConns == 4

(* Program constants. *)
MAX_LIMIT == 1000
DEFAULT_LIMIT == 100
max_rows == 1000

----------------------------------------------------------------------------
(* Python's str operations, on sequences of characters. *)

LowerLetters ==
    <<"a","b","c","d","e","f","g","h","i","j","k","l","m",
      "n","o","p","q","r","s","t","u","v","w","x","y","z">>

UpperLetters ==
    <<"A","B","C","D","E","F","G","H","I","J","K","L","M",
      "N","O","P","Q","R","S","T","U","V","W","X","Y","Z">>

Whitespace == {" ", "\t", "\n"}

UpperChar(c) ==
    IF \E i \in DOMAIN LowerLetters : LowerLetters[i] = c
    THEN UpperLetters[CHOOSE i \in DOMAIN LowerLetters : LowerLetters[i] = c]
    ELSE c

\* s.upper()
Upper(s) == [i \in 1..Len(s) |-> UpperChar(s[i])]

\* s[k:]
Slice(s, k) == SubSeq(s, k + 1, Len(s))

\* s.strip()
Strip(s) ==
    LET inked == {i \in 1..Len(s) : s[i] \notin Whitespace}
    IN  IF inked = {} THEN <<>>
        ELSE SubSeq(s, CHOOSE i \in inked : \A j \in inked : i <= j,
                       CHOOSE i \in inked : \A j \in inked : j <= i)

\* s.startswith(p)
StartsWith(s, p) == Len(s) >= Len(p) /\ SubSeq(s, 1, Len(p)) = p

\* p in s
Contains(s, p) == \E i \in 1..(Len(s) - Len(p) + 1) : SubSeq(s, i, i + Len(p) - 1) = p

DigitChars == <<"0","1","2","3","4","5","6","7","8","9">>

RECURSIVE Digits(_)
Digits(n) ==
    IF n < 10 THEN <<DigitChars[n + 1]>>
    ELSE Digits(n \div 10) \o <<DigitChars[(n % 10) + 1]>>

\* f"{n}" for an int n
Str(n) == IF n < 0 THEN <<"-">> \o Digits(-n) ELSE Digits(n)

kSELECT == <<"S","E","L","E","C","T">>
kSELECT_DISTINCT == <<"S","E","L","E","C","T"," ","D","I","S","T","I","N","C","T">>
kTOP == <<"T","O","P">>
kLIMIT == <<"L","I","M","I","T">>
kTOPsp == <<"T","O","P"," ">>
kLIMITsp == <<"L","I","M","I","T"," ">>
kSELECT_TOP == <<"S","E","L","E","C","T"," ","T","O","P"," ">>
kSELECT_DISTINCT_TOP == <<"S","E","L","E","C","T"," ","D","I","S","T","I","N","C","T"," ","T","O","P"," ">>
kEXEC == <<"E","X","E","C"," ">>

----------------------------------------------------------------------------
(* Python values, outcomes and exceptions. *)

PyNone == [t |-> "None"]
PyInt(n) == [t |-> "int", v |-> n]
PyStr(s) == [t |-> "str", v |-> s]
PyList(s) == [t |-> "list", v |-> s]
PyDict(f) == [t |-> "dict", v |-> f]

Ret(v) == [ok |-> TRUE, val |-> v]
Raise(e) == [ok |-> FALSE, val |-> e]

Exc(type, msg) == [type |-> type, msg |-> msg]

\* str(e), as pieces of text
StrOfExc(e) == <<e.msg>>

\* datetime.now().isoformat(): some ISO-8601 text; its value plays no part
Timestamp == "2024-01-01T00:00:00"

----------------------------------------------------------------------------
(* Python dicts keep their insertion order: a dict is a sequence of         *)
(* <<key, value>> pairs with distinct keys.  The text of a str is a sequence *)
(* of pieces: single characters where the code looks inside the text.       *)

S(x) == PyStr(<<x>>)

Keys(d) == {d.v[i][1] : i \in DOMAIN d.v}

\* d[key]
Item(d, key) == d.v[CHOOSE i \in DOMAIN d.v : d.v[i][1] = key][2]

\* d.get(key, default)
Get(d, key, default) == IF key \in Keys(d) THEN Item(d, key) ELSE default

\* bool(x), for the values the handlers test
Truthy(x) ==
    CASE x.t = "None" -> FALSE
      [] x.t = "int" -> x.v # 0
      [] x.t \in {"str", "list", "dict"} -> x.v # <<>>
      [] OTHER -> TRUE

----------------------------------------------------------------------------
(* The database, as the code sees it through pyodbc.  The world w is the    *)
(* connections opened so far and the log of what was done to the database;  *)
(* b is how the database behaves for one statement: the connect fails, the  *)
(* execute fails, reading the rows fails, or a result set comes back.       *)

Ev(op, conn, text, params) == [op |-> op, conn |-> conn, text |-> text, params |-> params]

World(cs, log) == [conns |-> cs, log |-> log]

Logged(w, e) == [w EXCEPT !.log = Append(@, e)]

\* "name = value" of the code: value is worked out once and the statements
\* after it, Rest, use it under that name
With(value, Rest(_)) == Rest(value)

\* pyodbc.connect(...) inside DatabaseManager.get_connection
get_connection(w, b) ==
    IF b.kind = "connect_error"
    THEN [out |-> Raise(Exc("HTTPException", "Database connection failed")), w |-> w]
    ELSE [out |-> Ret(Len(w.conns) + 1),
          w |-> World(Append(w.conns, "open"),
                      Append(w.log, Ev("connect", Len(w.conns) + 1, <<>>, <<>>)))]

\* Leaving "with self.get_connection() as conn": the object returned is a raw
\* pyodbc connection, whose __exit__ commits (or rolls back when an exception
\* passes through) and leaves the connection open.  No statement of
\* main.py closes it.
ConnectionExit(w, id, normal) ==
    Logged(w, Ev(IF normal THEN "commit" ELSE "rollback", id, <<>>, <<>>))

\* One value of a row, as DatabaseManager.execute_query stores it
SerializeValue(value) ==
    IF value.t \in {"datetime", "date"} THEN PyStr(value.v) ELSE value

\* row_dict of DatabaseManager.execute_query: column name -> stored value
RowDict(columns, row) ==
    [name \in {columns[i] : i \in DOMAIN row} |->
        SerializeValue(row[CHOOSE i \in DOMAIN row : columns[i] = name])]

\* DatabaseManager.execute_query(query, params)
execute_query(query, params, w, b) ==
    With(get_connection(w, b), LAMBDA c :
        IF ~c.out.ok THEN c
        ELSE With(Logged(c.w, Ev("execute", c.out.val, query, params)), LAMBDA w1 :
             IF b.kind \in {"execute_error", "fetch_error"}
             THEN [out |-> Raise(Exc("HTTPException", "Query execution failed")),
                   w |-> ConnectionExit(w1, c.out.val, FALSE)]
             ELSE [out |-> Ret([i \in DOMAIN b.rows |-> RowDict(b.columns, b.rows[i])]),
                   w |-> ConnectionExit(w1, c.out.val, TRUE)]))

----------------------------------------------------------------------------
(* The tool handlers of main.py.  Each takes its Python arguments, the      *)
(* world before the call and the database's behaviour for the statements it *)
(* runs (b[1] for the first, b[2] for the second, ...), and gives its       *)
(* outcome and the world after the call.                                    *)

OnlySelectMessage == "Only SELECT queries are allowed for security reasons"

\* the statements the handlers write out, each one piece of text (its line
\* breaks and indentation left out)
LIST_TABLES_SQL == <<"SELECT TABLE_NAME FROM INFORMATION_SCHEMA.TABLES WHERE TABLE_TYPE = 'BASE TABLE' ORDER BY TABLE_NAME">>
DESCRIBE_TABLE_SQL == <<"SELECT COLUMN_NAME, DATA_TYPE, IS_NULLABLE, COLUMN_DEFAULT, CHARACTER_MAXIMUM_LENGTH FROM INFORMATION_SCHEMA.COLUMNS WHERE TABLE_NAME = ? ORDER BY ORDINAL_POSITION">>
VERSION_SQL == <<"SELECT @@VERSION as version">>
DB_NAME_SQL == <<"SELECT DB_NAME() as database_name">>
SERVER_NAME_SQL == <<"SELECT @@SERVERNAME as server_name">>

\* the test as it would be with 'SELECT' in query_upper
IsSelect_anywhere(query_upper) == Contains(query_upper, kSELECT)

\* query_upper.startswith('SELECT')
IsSelect(query_upper) == StartsWith(query_upper, kSELECT)

\* 'LIMIT' in query_upper or 'TOP' in query_upper: the query is left as it is
HasLimitWord(query_upper) == Contains(query_upper, kLIMIT) \/ Contains(query_upper, kTOP)

\* the limit as it would be without "if limit > 1000: limit = 1000"
ClampLimit_absent(limit) == limit

\* if limit > 1000: limit = 1000
ClampLimit(limit) == IF limit > MAX_LIMIT THEN MAX_LIMIT ELSE limit

\* the rewrite as it would be with query[16:] and query[7:]
AddTop_pastSpace(query, query_upper, limit) ==
    IF StartsWith(query_upper, kSELECT_DISTINCT)
    THEN kSELECT_DISTINCT_TOP \o Str(limit) \o <<" ">> \o Slice(Strip(query), 16)
    ELSE kSELECT_TOP \o Str(limit) \o <<" ">> \o Slice(Strip(query), 7)

\* query.strip(), then the TOP clause put in front of query[15:] or query[6:]
AddTop(query, query_upper, limit) ==
    IF StartsWith(query_upper, kSELECT_DISTINCT)
    THEN kSELECT_DISTINCT_TOP \o Str(limit) \o <<" ">> \o Slice(Strip(query), 15)
    ELSE kSELECT_TOP \o Str(limit) \o <<" ">> \o Slice(Strip(query), 6)

\* The failure boundary every handler ends with: except Exception as e.
\* context holds the handler's own fields (query, table_name, ...).
FailureResult(e, context) ==
    context @@ [success |-> FALSE, error |-> StrOfExc(e), timestamp |-> Timestamp]

\* query_database_tool(query, limit)
query_database_tool(query, limit, w, b) ==
    IF query.t # "str"
    THEN [out |-> Raise(Exc("AttributeError", "object has no attribute 'strip'")), w |-> w]
    ELSE
    With(Upper(Strip(query.v)), LAMBDA query_upper :
        IF ~IsSelect(query_upper)
        THEN [out |-> Ret([error |-> OnlySelectMessage, query |-> query.v]), w |-> w]
        ELSE IF ~HasLimitWord(query_upper) /\ limit.t # "int"
        THEN [out |-> Raise(Exc("TypeError", "'>' not supported between instances")), w |-> w]
        ELSE
        With(IF ~HasLimitWord(query_upper)
             THEN AddTop(query.v, query_upper, ClampLimit(limit.v))
             ELSE query.v, LAMBDA sent :
        With(execute_query(sent, <<>>, w, b[1]), LAMBDA r :
            IF r.out.ok
            THEN [out |-> Ret([success |-> TRUE, results |-> r.out.val,
                               row_count |-> Len(r.out.val), query |-> sent,
                               timestamp |-> Timestamp]),
                  w |-> r.w]
            ELSE [out |-> Ret(FailureResult(r.out.val, [query |-> sent])), w |-> r.w])))

\* list_tables_tool()
list_tables_tool(w, b) ==
    With(execute_query(LIST_TABLES_SQL, <<>>, w, b[1]), LAMBDA r :
        IF ~r.out.ok
        THEN [out |-> Ret(FailureResult(r.out.val, <<>>)), w |-> r.w]
        ELSE IF \E i \in DOMAIN r.out.val : "TABLE_NAME" \notin DOMAIN r.out.val[i]
        THEN [out |-> Ret(FailureResult(Exc("KeyError", "'TABLE_NAME'"), <<>>)), w |-> r.w]
        ELSE [out |-> Ret([success |-> TRUE,
                           tables |-> [i \in DOMAIN r.out.val |-> r.out.val[i]["TABLE_NAME"]],
                           table_count |-> Len(r.out.val), timestamp |-> Timestamp]),
              w |-> r.w])

\* describe_table_tool(table_name)
describe_table_tool(table_name, w, b) ==
    With(execute_query(DESCRIBE_TABLE_SQL, <<table_name>>, w, b[1]), LAMBDA r :
        IF ~r.out.ok
        THEN [out |-> Ret(FailureResult(r.out.val, [table_name |-> table_name])), w |-> r.w]
        ELSE [out |-> Ret([success |-> TRUE, table_name |-> table_name,
                           columns |-> r.out.val, column_count |-> Len(r.out.val),
                           timestamp |-> Timestamp]),
              w |-> r.w])

\* result[0][column] if result else "Unknown"
FirstOrUnknown(result, column) ==
    IF result = <<>> THEN Ret(S("Unknown"))
    ELSE IF column \in DOMAIN result[1] THEN Ret(result[1][column])
    ELSE Raise(Exc("KeyError", column))

\* get_database_info_tool()
get_database_info_tool(w, b) ==
    With(execute_query(VERSION_SQL, <<>>, w, b[1]), LAMBDA r1 :
    IF ~r1.out.ok THEN [out |-> Ret(FailureResult(r1.out.val, <<>>)), w |-> r1.w] ELSE
    With(execute_query(DB_NAME_SQL, <<>>, r1.w, b[2]), LAMBDA r2 :
    IF ~r2.out.ok THEN [out |-> Ret(FailureResult(r2.out.val, <<>>)), w |-> r2.w] ELSE
    With(execute_query(SERVER_NAME_SQL, <<>>, r2.w, b[3]), LAMBDA r3 :
    IF ~r3.out.ok THEN [out |-> Ret(FailureResult(r3.out.val, <<>>)), w |-> r3.w] ELSE
    With(execute_query(LIST_TABLES_SQL, <<>>, r3.w, b[4]), LAMBDA r4 :
    IF ~r4.out.ok THEN [out |-> Ret(FailureResult(r4.out.val, <<>>)), w |-> r4.w] ELSE
    With(FirstOrUnknown(r2.out.val, "database_name"), LAMBDA name :
    IF ~name.ok THEN [out |-> Ret(FailureResult(name.val, <<>>)), w |-> r4.w] ELSE
    With(FirstOrUnknown(r3.out.val, "server_name"), LAMBDA server :
    IF ~server.ok THEN [out |-> Ret(FailureResult(server.val, <<>>)), w |-> r4.w] ELSE
    With(FirstOrUnknown(r1.out.val, "version"), LAMBDA version :
    IF ~version.ok THEN [out |-> Ret(FailureResult(version.val, <<>>)), w |-> r4.w] ELSE
    [out |-> Ret([success |-> TRUE, database_name |-> name.val,
                  server_name |-> server.val, version |-> version.val,
                  table_count |-> Len(r4.out.val), timestamp |-> Timestamp]),
     w |-> r4.w])))))))

\* f"{x}" for a value put into the EXEC statement
Text(x) == IF x.t = "str" THEN x.v ELSE IF x.t = "int" THEN Str(x.v) ELSE <<x.t>>

\* ', '.join(param_list), param_list being the "@key = ?" of every item in order
RECURSIVE ParamList(_)
ParamList(items) ==
    IF items = <<>> THEN <<>>
    ELSE <<"@", items[1][1], " ", "=", " ", "?">>
         \o (IF Len(items) > 1 THEN <<",", " ">> ELSE <<>>)
         \o ParamList(Tail(items))

\* the values as they would be bound if they were collected last first
ParamValues_reversed(items) == [i \in DOMAIN items |-> items[Len(items) + 1 - i][2]]

\* tuple(param_values)
ParamValues(items) == [i \in DOMAIN items |-> items[i][2]]

\* execute_stored_procedure_tool(procedure_name, parameters)
execute_stored_procedure_tool(procedure_name, parameters, w, b) ==
    With([procedure_name |-> procedure_name, parameters |-> parameters], LAMBDA context :
        IF Truthy(parameters) /\ parameters.t # "dict"
        THEN [out |-> Ret(FailureResult(Exc("AttributeError", "object has no attribute 'items'"),
                                        context)),
              w |-> w]
        ELSE
        With(IF Truthy(parameters)
             THEN kEXEC \o Text(procedure_name) \o <<" ">> \o ParamList(parameters.v)
             ELSE kEXEC \o Text(procedure_name), LAMBDA query :
        With(IF Truthy(parameters) THEN ParamValues(parameters.v) ELSE <<>>, LAMBDA values :
        With(execute_query(query, values, w, b[1]), LAMBDA r :
            IF ~r.out.ok
            THEN [out |-> Ret(FailureResult(r.out.val, context)), w |-> r.w]
            ELSE [out |-> Ret([success |-> TRUE, procedure_name |-> procedure_name,
                               parameters |-> parameters, results |-> r.out.val,
                               row_count |-> Len(r.out.val), timestamp |-> Timestamp]),
                  w |-> r.w]))))

----------------------------------------------------------------------------
(* database.py: DatabaseConnection and QueryExecutor.                       *)

\* The bytes of a value that are not text in UTF-8
BadBytes == {"\\xff", "\\xfe"}

\* value.decode('utf-8') succeeds
Utf8Decodable(bytes) == \A i \in DOMAIN bytes : bytes[i] \notin BadBytes

\* One value of a row, as QueryExecutor.execute_select_query stores it
ExecutorSerializeValue(value) ==
    IF value.t \in {"datetime", "date"} THEN PyStr(value.v)
    ELSE IF value.t = "bytes"
    THEN IF Utf8Decodable(value.v) THEN PyStr(value.v)
         ELSE PyStr(<<"<binary data: ">> \o Str(Len(value.v)) \o <<" bytes>">>)
    ELSE value

\* row_dict of QueryExecutor.execute_select_query
ExecutorRowDict(columns, row) ==
    [name \in {columns[i] : i \in DOMAIN row} |->
        ExecutorSerializeValue(row[CHOOSE i \in DOMAIN row : columns[i] = name])]

\* Entering DatabaseConnection.get_connection(): pyodbc.connect, conn.timeout
DatabaseConnection_enter(w, b) ==
    IF b.kind = "connect_error"
    THEN [out |-> Raise(Exc("pyodbc.Error", "connection failed")), w |-> w]
    ELSE [out |-> Ret(Len(w.conns) + 1),
          w |-> World(Append(w.conns, "open"),
                      Append(w.log, Ev("connect", Len(w.conns) + 1, <<>>, <<>>)))]

\* Leaving DatabaseConnection.get_connection(): finally: conn.close()
DatabaseConnection_exit(w, id) ==
    World([w.conns EXCEPT ![id] = "closed"], Append(w.log, Ev("close", id, <<>>, <<>>)))

\* 'TOP ' in query_upper or 'LIMIT ' in query_upper: the query is left as it is
ExecutorHasLimitWord(query_upper) ==
    Contains(query_upper, kTOPsp) \/ Contains(query_upper, kLIMITsp)

\* min(limit or self.max_rows, self.max_rows), for limit None or an int
EffectiveLimit(limit) ==
    With(IF Truthy(limit) THEN limit.v ELSE max_rows, LAMBDA wanted :
        IF wanted < max_rows THEN wanted ELSE max_rows)

\* The TOP clause put in front of query[15:] or query[6:], query as it was passed
ExecutorAddTop(query, query_upper, limit) ==
    IF StartsWith(query_upper, kSELECT_DISTINCT)
    THEN kSELECT_DISTINCT_TOP \o Str(limit) \o <<" ">> \o Slice(query, 15)
    ELSE kSELECT_TOP \o Str(limit) \o <<" ">> \o Slice(query, 6)

\* QueryExecutor.execute_select_query(query, params, limit)
execute_select_query(query, params, limit, w, b) ==
    IF query.t # "str"
    THEN [out |-> Raise(Exc("AttributeError", "object has no attribute 'strip'")), w |-> w]
    ELSE
    With(Upper(Strip(query.v)), LAMBDA query_upper :
        IF ~IsSelect(query_upper)
        THEN [out |-> Raise(Exc("ValueError", "Only SELECT queries are allowed")), w |-> w]
        ELSE IF Truthy(limit) /\ limit.t # "int"
        THEN [out |-> Raise(Exc("TypeError", "'<' not supported between instances")), w |-> w]
        ELSE
        With(IF ~ExecutorHasLimitWord(query_upper)
             THEN ExecutorAddTop(query.v, query_upper, EffectiveLimit(limit))
             ELSE query.v, LAMBDA sent :
        With(DatabaseConnection_enter(w, b), LAMBDA c :
            IF ~c.out.ok THEN c
            ELSE With(Logged(c.w, Ev("execute", c.out.val, sent, params)), LAMBDA w1 :
                 IF b.kind \in {"execute_error", "fetch_error"}
                 THEN [out |-> Raise(Exc("pyodbc.Error", "statement failed")),
                       w |-> DatabaseConnection_exit(w1, c.out.val)]
                 ELSE [out |-> Ret([i \in DOMAIN b.rows |->
                                        ExecutorRowDict(b.columns, b.rows[i])]),
                       w |-> DatabaseConnection_exit(w1, c.out.val)]))))

\* allowed_ops of execute_non_query
allowed_ops ==
    << <<"I","N","S","E","R","T">>, <<"U","P","D","A","T","E">>, <<"D","E","L","E","T","E">>,
       <<"E","X","E","C">>, <<"E","X","E","C","U","T","E">> >>

\* any(query_upper.startswith(op) for op in allowed_ops)
IsAllowedOp(query_upper) == \E i \in DOMAIN allowed_ops : StartsWith(query_upper, allowed_ops[i])

\* the except branch as it would be without conn.rollback()
NonQueryFailed_noRollback(w, id, b, e) ==
    [out |-> Raise(e), w |-> DatabaseConnection_exit(w, id)]

\* except Exception as e: conn.rollback(); raise -- and then the finally of
\* get_connection.  A rollback that fails raises its own error in place of e.
NonQueryFailed(w, id, b, e) ==
    IF b.rollback_ok
    THEN [out |-> Raise(e),
          w |-> DatabaseConnection_exit(Logged(w, Ev("rollback", id, <<>>, <<>>)), id)]
    ELSE [out |-> Raise(Exc("pyodbc.Error", "rollback failed")),
          w |-> DatabaseConnection_exit(w, id)]

\* QueryExecutor.execute_non_query(query, params), enable_write_ops being
\* self.enable_write_ops
execute_non_query(query, params, enable_write_ops, w, b) ==
    IF ~enable_write_ops
    THEN [out |-> Raise(Exc("ValueError", "Write operations are disabled for security")), w |-> w]
    ELSE IF query.t # "str"
    THEN [out |-> Raise(Exc("AttributeError", "object has no attribute 'strip'")), w |-> w]
    ELSE IF ~IsAllowedOp(Upper(Strip(query.v)))
    THEN [out |-> Raise(Exc("ValueError",
                            "Only INSERT, UPDATE, DELETE, EXEC, EXECUTE operations are allowed")),
          w |-> w]
    ELSE
    With(DatabaseConnection_enter(w, b), LAMBDA c :
        IF ~c.out.ok THEN c
        ELSE IF b.kind = "cursor_error"
        THEN [out |-> Raise(Exc("pyodbc.Error", "cursor failed")),
              w |-> DatabaseConnection_exit(c.w, c.out.val)]
        ELSE With(Logged(c.w, Ev("execute", c.out.val, query.v, params)), LAMBDA w1 :
             CASE b.kind = "execute_error" ->
                    NonQueryFailed(w1, c.out.val, b, Exc("pyodbc.Error", "statement failed"))
               [] b.kind = "commit_error" ->
                    NonQueryFailed(w1, c.out.val, b, Exc("pyodbc.Error", "commit failed"))
               [] OTHER ->
                    [out |-> Ret(PyInt(b.rowcount)),
                     w |-> DatabaseConnection_exit(
                              Logged(w1, Ev("commit", c.out.val, <<>>, <<>>)), c.out.val)]))

----------------------------------------------------------------------------
(* json.dumps.  The text it gives is kept as the value it encodes; what     *)
(* matters here is when it raises: a value of a type JSON does not have.    *)

JsonTypes == {"None", "bool", "int", "float", "str"}

RECURSIVE JsonValueOk(_)
JsonValueOk(x) ==
    CASE x.t \in JsonTypes -> TRUE
      [] x.t = "list" -> \A i \in DOMAIN x.v : JsonValueOk(x.v[i])
      [] x.t = "dict" -> \A i \in DOMAIN x.v : JsonValueOk(x.v[i][2])
      [] OTHER -> FALSE

\* the row dicts of a list of rows hold only values JSON can encode
JsonRowsOk(rows) == \A i \in DOMAIN rows : \A name \in DOMAIN rows[i] : JsonValueOk(rows[i][name])

RowFields == {"results", "columns"}
ValueFields == {"database_name", "server_name", "version", "table_name", "procedure_name", "parameters"}

\* json.dumps(result) does not raise
JsonSerializable(result) ==
    /\ \A f \in RowFields \cap DOMAIN result : JsonRowsOk(result[f])
    /\ \A f \in ValueFields \cap DOMAIN result : JsonValueOk(result[f])
    /\ "tables" \in DOMAIN result => \A i \in DOMAIN result.tables : JsonValueOk(result.tables[i])

\* json.dumps(result, indent=2)
json_dumps(result) ==
    IF JsonSerializable(result) THEN Ret([json |-> result])
    ELSE Raise(Exc("TypeError", "Object is not JSON serializable"))

----------------------------------------------------------------------------
(* The tool registry and the JSON-RPC dispatcher of main.py.                *)

Property(name, type, description) == [name |-> name, type |-> type, description |-> description]

Schema(properties, required) == [type |-> "object", properties |-> properties, required |-> required]

Tool(name, description, parameters) ==
    [name |-> name, function |-> name, description |-> description, parameters |-> parameters]

\* MCP_TOOLS, in the order it is written
MCP_TOOLS ==
    << Tool("query_database", "Execute a SQL query against the database.",
            Schema(<<Property("query", "string", "SQL SELECT query to execute"),
                     Property("limit", "integer", "Maximum rows to return")
                         @@ [default |-> DEFAULT_LIMIT]>>,
                   <<"query">>)),
       Tool("list_tables", "Get a list of all tables in the database.", Schema(<<>>, <<>>)),
       Tool("describe_table", "Get schema information for a specific table.",
            Schema(<<Property("table_name", "string", "Name of the table to describe")>>,
                   <<"table_name">>)),
       Tool("get_database_info", "Get general information about the connected database.",
            Schema(<<>>, <<>>)),
       Tool("execute_stored_procedure", "Execute a stored procedure.",
            Schema(<<Property("procedure_name", "string", "Name of the stored procedure"),
                     Property("parameters", "object", "Parameters for the stored procedure")>>,
                   <<"procedure_name">>)) >>

ToolNames == {MCP_TOOLS[i].name : i \in DOMAIN MCP_TOOLS}

\* The parameters each handler is defined with, and those without a default
ParameterNames(tool) ==
    CASE tool = "query_database" -> {"query", "limit"}
      [] tool = "describe_table" -> {"table_name"}
      [] tool = "execute_stored_procedure" -> {"procedure_name", "parameters"}
      [] OTHER -> {}

RequiredNames(tool) ==
    CASE tool = "query_database" -> {"query"}
      [] tool = "describe_table" -> {"table_name"}
      [] tool = "execute_stored_procedure" -> {"procedure_name"}
      [] OTHER -> {}

NoCall == [tool |-> "none"]

\* tool_function(**arguments): the call binds the arguments by name (a
\* TypeError when it cannot), then runs the handler
CallTool(tool, arguments, w, b) ==
    IF arguments.t # "dict"
    THEN [tool |-> tool, bound |-> FALSE, w |-> w,
          out |-> Raise(Exc("TypeError", "argument after ** must be a mapping"))]
    ELSE IF ~(Keys(arguments) \subseteq ParameterNames(tool))
    THEN [tool |-> tool, bound |-> FALSE, w |-> w,
          out |-> Raise(Exc("TypeError", "got an unexpected keyword argument"))]
    ELSE IF ~(RequiredNames(tool) \subseteq Keys(arguments))
    THEN [tool |-> tool, bound |-> FALSE, w |-> w,
          out |-> Raise(Exc("TypeError", "missing 1 required positional argument"))]
    ELSE
    With(CASE tool = "query_database" ->
                    query_database_tool(Item(arguments, "query"),
                                        Get(arguments, "limit", PyInt(DEFAULT_LIMIT)), w, b)
           [] tool = "list_tables" -> list_tables_tool(w, b)
           [] tool = "describe_table" -> describe_table_tool(Item(arguments, "table_name"), w, b)
           [] tool = "get_database_info" -> get_database_info_tool(w, b)
           [] tool = "execute_stored_procedure" ->
                    execute_stored_procedure_tool(Item(arguments, "procedure_name"),
                                                  Get(arguments, "parameters", PyNone), w, b),
         LAMBDA r : [tool |-> tool, bound |-> TRUE, w |-> r.w, out |-> r.out])

ResultResponse(result, id) == [jsonrpc |-> "2.0", result |-> result, id |-> id]

\* the error response as it would be with a null result beside the error
ErrorResponse_withResult(code, message, id) ==
    [jsonrpc |-> "2.0", result |-> PyNone, error |-> [code |-> code, message |-> message], id |-> id]

\* the error response as it would be with the JSON-RPC code -32601 on every path
ErrorResponse_oneCode(code, message, id) ==
    [jsonrpc |-> "2.0", error |-> [code |-> -32601, message |-> message], id |-> id]

ErrorResponse(code, message, id) ==
    [jsonrpc |-> "2.0", error |-> [code |-> code, message |-> message], id |-> id]

TextContent(text) == <<[type |-> "text", text |-> text]>>

\* the id as it would be if the request's own id were never read
RequestId_default(req) == PyInt(1)

\* request.get("id", 1)
RequestId(req) == Get(req, "id", PyInt(1))

\* the try/except as it would be with isError following the result's success field
ToolCallResult_bySuccess(out) ==
    With(IF out.ok THEN json_dumps(out.val) ELSE out, LAMBDA text :
        IF text.ok
        THEN [content |-> TextContent(text.val),
              isError |-> "success" \in DOMAIN out.val /\ ~out.val.success]
        ELSE [content |-> TextContent([json |-> [error |-> StrOfExc(text.val)]]),
              isError |-> TRUE])

\* The try/except around the tool call: the handler's result as JSON text
\* with isError False, or what was raised as JSON text with isError True
ToolCallResult(out) ==
    With(IF out.ok THEN json_dumps(out.val) ELSE out, LAMBDA text :
        IF text.ok
        THEN [content |-> TextContent(text.val), isError |-> FALSE]
        ELSE [content |-> TextContent([json |-> [error |-> StrOfExc(text.val)]]),
              isError |-> TRUE])

\* the tools as they would be listed if only the names were copied
ToolList_namesOnly == [i \in DOMAIN registry |-> [name |-> registry[i].name]]

\* the tools of the tools/list result
ToolList ==
    [i \in DOMAIN registry |->
        [name |-> registry[i].name, description |-> registry[i].description,
         inputSchema |-> registry[i].parameters]]

InitializeResult ==
    [protocolVersion |-> "2024-11-05",
     capabilities |-> [tools |-> [listChanged |-> TRUE], resources |-> <<>>, prompts |-> <<>>],
     serverInfo |-> [name |-> "SQL Server MCP", version |-> "1.0.0",
                     description |-> "Model Context Protocol server for MS SQL Server database operations"]]

IsText(x, text) == x.t = "str" /\ x.v = <<text>>

\* the tools/call branch of mcp_handler
ToolsCall(req, w, b) ==
    With(Get(req, "params", PyDict(<<>>)), LAMBDA params :
        IF params.t # "dict"
        THEN [out |-> Raise(Exc("AttributeError", "object has no attribute 'get'")),
              w |-> w, call |-> NoCall]
        ELSE
        With(Get(params, "name", PyNone), LAMBDA tool_name :
        With(Get(params, "arguments", PyDict(<<>>)), LAMBDA arguments :
            IF tool_name.t \in {"list", "dict"}
            THEN [out |-> Raise(Exc("TypeError", "unhashable type")), w |-> w, call |-> NoCall]
            ELSE IF ~(tool_name.t = "str"
                      /\ \E i \in DOMAIN registry : tool_name.v = <<registry[i].name>>)
            THEN [out |-> Ret(ErrorResponse(-1, <<"Tool '">> \o Text(tool_name) \o <<"' not found">>,
                                            RequestId(req))),
                  w |-> w, call |-> NoCall]
            ELSE
            With(CallTool(tool_name.v[1], arguments, w, b), LAMBDA c :
                [out |-> Ret(ResultResponse(ToolCallResult(c.out), RequestId(req))),
                 w |-> c.w, call |-> [tool |-> c.tool, bound |-> c.bound, out |-> c.out]]))))

\* the body of mcp_handler's try
Dispatch(req, w, b) ==
    IF req.t # "dict"
    THEN [out |-> Raise(Exc("AttributeError", "object has no attribute 'get'")),
          w |-> w, call |-> NoCall]
    ELSE
    With(Get(req, "method", PyNone), LAMBDA method :
        CASE IsText(method, "tools/list") ->
                [out |-> Ret(ResultResponse([tools |-> ToolList], RequestId(req))),
                 w |-> w, call |-> NoCall]
          [] IsText(method, "tools/call") -> ToolsCall(req, w, b)
          [] IsText(method, "initialize") ->
                [out |-> Ret(ResultResponse(InitializeResult, RequestId(req))),
                 w |-> w, call |-> NoCall]
          [] OTHER ->
                [out |-> Ret(ErrorResponse(-32601,
                                           <<"Method '">> \o Text(method) \o <<"' not found">>,
                                           RequestId(req))),
                 w |-> w, call |-> NoCall])

\* mcp_handler as it would be without its except Exception
OuterBoundary_absent(out, req) == out

\* mcp_handler's except Exception: whatever the body raised becomes an error response
OuterBoundary(out, req) ==
    IF out.ok THEN out
    ELSE Ret(ErrorResponse(-1, StrOfExc(out.val),
                           IF req.t = "dict" THEN RequestId(req) ELSE PyInt(1)))

\* mcp_handler(req)
mcp_handler(req, w, b) ==
    With(Dispatch(req, w, b), LAMBDA r :
        [out |-> OuterBoundary(r.out, req), w |-> r.w, call |-> r.call])

----------------------------------------------------------------------------
(* The inputs the model draws from: what the database may answer, the       *)
(* queries and limits a caller may pass, the requests a client may send.    *)

RawDatetime == [t |-> "datetime", v |-> <<"2024-05-01T10:00:00">>]
RawDate == [t |-> "date", v |-> <<"2024-05-01">>]
RawTime == [t |-> "time", v |-> <<"10:00:00">>]
RawDecimal == [t |-> "Decimal", v |-> <<"1.50">>]
RawBytesText == [t |-> "bytes", v |-> <<"a", "b">>]
RawBytesBinary == [t |-> "bytes", v |-> <<"\\xff", "\\xfe", "\\xff", "\\xfe">>]

\* what pyodbc may hand back as one value of a row
RawValues ==
    {PyInt(1), S("x"), PyNone, RawDatetime, RawDate, RawTime, RawDecimal,
     RawBytesText, RawBytesBinary}

ConnectError == [kind |-> "connect_error", columns |-> <<>>, rows |-> <<>>]
ExecuteError == [kind |-> "execute_error", columns |-> <<>>, rows |-> <<>>]
FetchError == [kind |-> "fetch_error", columns |-> <<>>, rows |-> <<>>]
Rows(columns, rows) == [kind |-> "rows", columns |-> columns, rows |-> rows]

Failures == {ConnectError, ExecuteError, FetchError}

\* for a statement whose columns the caller chose
AnyBehaviours ==
    Failures
    \cup {Rows(<<"a">>, <<>>)}
    \cup {Rows(<<"a">>, <<<<x>>>>) : x \in RawValues}
    \cup {Rows(<<"a", "b">>, << <<PyInt(1), RawDatetime>>, <<PyInt(2), RawBytesBinary>> >>)}

\* for a statement that selects the one column named
OneColumnBehaviours(column) ==
    {ConnectError, ExecuteError, Rows(<<column>>, <<>>), Rows(<<column>>, <<<<S("x")>>>>)}

DescribeColumns ==
    <<"COLUMN_NAME", "DATA_TYPE", "IS_NULLABLE", "COLUMN_DEFAULT", "CHARACTER_MAXIMUM_LENGTH">>

\* the behaviours of the database for the statements of one call of a tool
BehaviourSeqs(tool) ==
    CASE tool \in {"query_database", "execute_stored_procedure"} ->
            {<<b1>> : b1 \in AnyBehaviours}
      [] tool = "list_tables" ->
            {<<b1>> : b1 \in OneColumnBehaviours("TABLE_NAME")
                              \cup {FetchError,
                                    Rows(<<"TABLE_NAME">>, << <<S("x")>>, <<S("y")>> >>)}}
      [] tool = "describe_table" ->
            {<<b1>> : b1 \in Failures
                              \cup {Rows(DescribeColumns, <<>>),
                                    Rows(DescribeColumns,
                                         << <<S("id"), S("int"), S("NO"), PyNone, PyNone>> >>)}}
      [] tool = "get_database_info" ->
            {<<b1, b2, b3, b4>> :
                b1 \in OneColumnBehaviours("version"),
                b2 \in OneColumnBehaviours("database_name"),
                b3 \in OneColumnBehaviours("server_name"),
                b4 \in OneColumnBehaviours("TABLE_NAME")}
      [] OTHER -> {<<>>}

Leads == {<<>>, <<" ">>}
Trails == {<<>>, <<"\n">>}

Heads ==
    {kSELECT, kSELECT_DISTINCT,
     <<"s","e","l","e","c","t">>,
     <<"S","e","l","e","c","t"," ","d","i","s","t","i","n","c","t">>,
     <<"I","N","S","E","R","T">>,
     <<"e","x","e","c">>,
     <<"W","I","T","H">>}

bStarFromT == <<" ","*"," ","F","R","O","M"," ","t">>
bXFromT == <<" ","x"," ","F","R","O","M"," ","t">>
bTop5 == <<" ","T","O","P"," ","5"," ","*"," ","F","R","O","M"," ","t">>
bLimit5 == <<" ","*"," ","F","R","O","M"," ","t"," ","l","i","m","i","t"," ","5">>
bLaptops == <<" ","*"," ","F","R","O","M"," ","l","a","p","t","o","p","s">>
bLimits == <<" ","x"," ","F","R","O","M"," ","L","i","m","i","t","s">>
bIve == <<"I","V","E"," ","F","R","O","M"," ","t">>
bIntoSelect == <<" ","I","N","T","O"," ","t"," ","S","E","L","E","C","T"," ","1">>

Bodies == {<<>>, bStarFromT, bXFromT, bTop5, bLimit5, bLaptops, bLimits, bIve, bIntoSelect}

\* the query texts of the direct calls
Queries == {lead \o head \o body \o trail :
                lead \in Leads, head \in Heads, body \in Bodies, trail \in Trails}

Missing == [t |-> "missing"]

\* the limits of the direct calls: left out, or given
Limits ==
    {Missing, PyNone, PyInt(0), PyInt(1), PyInt(10), PyInt(-1), PyInt(MAX_LIMIT),
     PyInt(MAX_LIMIT + 1), PyInt(5 * MAX_LIMIT), S("10")}

DirectCalls ==
    {[query |-> PyStr(q), limit |-> l] : q \in Queries, l \in Limits}
    \cup {[query |-> q, limit |-> l] : q \in {PyInt(5), PyNone}, l \in {Missing, PyInt(10)}}

DirectBehaviours == {ConnectError, ExecuteError, Rows(<<"a">>, <<>>), Rows(<<"a">>, <<<<PyInt(1)>>>>)}

\* an argument left out takes the parameter's default
ArgOr(x, default) == IF x.t = "missing" THEN default ELSE x

Field(key, value) == <<<<key, value>>>>

ServerQueries ==
    {kSELECT \o bStarFromT, <<" ">> \o kSELECT_DISTINCT \o bStarFromT, kSELECT \o bTop5,
     kSELECT \o bLaptops, kSELECT_DISTINCT \o bIve,
     <<"I","N","S","E","R","T">> \o bIntoSelect}

QueryArguments ==
    {PyDict(Field("query", q) \o l) :
        q \in {PyStr(x) : x \in ServerQueries} \cup {PyInt(5), PyNone},
        l \in {<<>>, Field("limit", PyInt(10)), Field("limit", PyInt(5 * MAX_LIMIT)),
               Field("limit", S("10"))}}

ProcedureArguments ==
    {PyDict(Field("procedure_name", S("sp_purge_orders")))}
    \cup
    {PyDict(Field("procedure_name", PyStr(<<"p">>)) \o ps) :
        ps \in {<<>>, Field("parameters", PyNone), Field("parameters", PyDict(<<>>)),
                Field("parameters", PyDict(<< <<"a", PyInt(1)>>, <<"b", S("x")>> >>)),
                Field("parameters", PyDict(<< <<"b", S("x")>>, <<"a", PyInt(1)>> >>)),
                Field("parameters", PyList(<<PyInt(1)>>))}}

\* the arguments a client may give with a tool's name
Arguments(tool) ==
    {PyDict(<<>>), PyList(<<>>), PyDict(Field("bogus", PyInt(1)))}
    \cup CASE tool = "query_database" -> QueryArguments
           [] tool = "describe_table" ->
                {PyDict(Field("table_name", S("t"))), PyDict(Field("table_name", PyNone))}
           [] tool = "execute_stored_procedure" -> ProcedureArguments
           [] OTHER -> {}

ToolCallParams ==
    UNION {{PyDict(Field("name", S(n)) \o Field("arguments", a)) : a \in Arguments(n)} :
                n \in ToolNames}
    \cup {PyDict(Field("name", S(n))) : n \in ToolNames}
    \cup {PyDict(<<>>), PyDict(Field("name", S("drop_table"))), PyDict(Field("name", PyInt(5))),
          PyDict(Field("name", PyList(<<>>))), PyList(<<>>), PyNone}

OptionalId == {<<>>, Field("id", PyInt(7))}

Methods == {S("tools/list"), S("initialize"), S("ping"), PyInt(3)}

\* the request objects a client may send
Requests ==
    {PyList(<<>>), PyDict(<<>>)}
    \cup {PyDict(Field("method", m) \o id) : m \in Methods \cup {S("tools/call")}, id \in OptionalId}
    \cup {PyDict(Field("method", S("tools/call")) \o Field("params", p) \o id) :
            p \in ToolCallParams, id \in OptionalId}

\* the registered tool a request names, for choosing the database's behaviour
RequestedTool(req) ==
    IF req.t = "dict" /\ IsText(Get(req, "method", PyNone), "tools/call")
       /\ Get(req, "params", PyNone).t = "dict"
       /\ Get(Get(req, "params", PyNone), "name", PyNone).t = "str"
       /\ Get(Get(req, "params", PyNone), "name", PyNone).v[1] \in ToolNames
    THEN Get(Get(req, "params", PyNone), "name", PyNone).v[1]
    ELSE "none"

----------------------------------------------------------------------------
(* The server: requests arrive one at a time, mcp_handler answers each, and *)
(* the Python runtime finalizes connection objects nobody refers to.        *)

NoRequest == PyNone
NoResponse == [pending |-> TRUE]

Init ==
    /\ pc = "idle"
    /\ request = NoRequest
    /\ response = NoResponse
    /\ call = NoCall
    /\ conns = <<>>
    /\ dbLog = <<>>
    /\ registry = MCP_TOOLS

\* the transport hands the next request to mcp_handler
Receive ==
    /\ pc = "idle"
    /\ \E r \in Requests : request' = r
    /\ pc' = "received"
    /\ response' = NoResponse
    /\ call' = NoCall
    /\ dbLog' = <<>>
    /\ UNCHANGED <<conns, registry>>

\* mcp_handler runs to its return.  It and the handlers only read MCP_TOOLS
\* (.items(), in, [tool_name]); none of them assigns to it or to an entry.
McpHandler ==
    /\ pc = "received"
    /\ \E b \in BehaviourSeqs(RequestedTool(request)) :
        \E r \in {mcp_handler(request, World(conns, <<>>), b)} :
            /\ Len(r.w.conns) <= MaxConns
            /\ response' = r.out
            /\ call' = r.call
            /\ conns' = r.w.conns
            /\ dbLog' = r.w.log
    /\ pc' = "responded"
    /\ UNCHANGED <<request, registry>>

\* A pyodbc connection that nothing refers to any more is closed when the
\* runtime finalizes the object; when that happens is the runtime's choice.
Finalize ==
    /\ \E id \in DOMAIN conns :
        /\ conns[id] = "open"
        /\ conns' = [conns EXCEPT ![id] = "closed"]
    /\ UNCHANGED <<pc, request, response, call, dbLog, registry>>

\* the transport sends the response; nothing of the request is kept
Reply ==
    /\ pc = "responded"
    /\ pc' = "idle"
    /\ request' = NoRequest
    /\ response' = NoResponse
    /\ call' = NoCall
    /\ dbLog' = <<>>
    /\ UNCHANGED <<conns, registry>>

Next == Receive \/ McpHandler \/ Reply \/ Finalize

Spec == Init /\ [][Next]_vars

----------------------------------------------------------------------------
(* Direct calls of query_database_tool and of                               *)
(* QueryExecutor.execute_select_query with one query and limit.             *)

InitGate ==
    /\ pc = "start"
    /\ request \in DirectCalls
    /\ response = NoResponse
    /\ call = NoCall
    /\ conns = <<>>
    /\ dbLog = <<>>
    /\ registry = MCP_TOOLS

CallQueryDatabaseTool ==
    /\ pc = "start"
    /\ \E b \in DirectBehaviours :
        \E r \in {query_database_tool(request.query, ArgOr(request.limit, PyInt(DEFAULT_LIMIT)),
                                      World(conns, <<>>), <<b>>)} :
            /\ call' = [tool |-> "query_database", bound |-> TRUE, out |-> r.out]
            /\ conns' = r.w.conns
            /\ dbLog' = r.w.log
    /\ pc' = "tool_done"
    /\ UNCHANGED <<request, response, registry>>

CallExecuteSelectQuery ==
    /\ pc = "start"
    /\ \E b \in DirectBehaviours :
        \E r \in {execute_select_query(request.query, <<>>, ArgOr(request.limit, PyNone),
                                       World(conns, <<>>), b)} :
            /\ call' = [tool |-> "execute_select_query", bound |-> TRUE, out |-> r.out]
            /\ conns' = r.w.conns
            /\ dbLog' = r.w.log
    /\ pc' = "executor_done"
    /\ UNCHANGED <<request, response, registry>>

NextGate == CallQueryDatabaseTool \/ CallExecuteSelectQuery

SpecGate == InitGate /\ [][NextGate]_vars

----------------------------------------------------------------------------
(* Direct calls of QueryExecutor.execute_non_query, with write operations   *)
(* enabled or disabled.                                                     *)

WriteHeads ==
    {<<"I","N","S","E","R","T">>, <<"u","p","d","a","t","e">>, <<"D","E","L","E","T","E">>,
     <<"E","X","E","C">>, <<"E","X","E","C","U","T","E">>, kSELECT,
     <<"D","R","O","P">>, <<"M","E","R","G","E">>}

WriteBodies == {<<>>, <<" ","t">>}

\* the statements of the direct calls
Statements == {lead \o head \o body : lead \in Leads, head \in WriteHeads, body \in WriteBodies}

NonQueryCalls ==
    {[query |-> q, enable_write_ops |-> f] :
        q \in {PyStr(x) : x \in Statements} \cup {PyInt(5), PyNone}, f \in BOOLEAN}

NonQueryBehaviour(kind, rowcount, rollback_ok) ==
    [kind |-> kind, rowcount |-> rowcount, rollback_ok |-> rollback_ok]

\* what the database does during one call: the connect fails, no cursor is
\* given, the execute or the commit fails (and then the rollback works or
\* fails too), or the statement runs and changes some rows
NonQueryBehaviours ==
    {NonQueryBehaviour("connect_error", 0, TRUE), NonQueryBehaviour("cursor_error", 0, TRUE)}
    \cup {NonQueryBehaviour(k, 0, r) : k \in {"execute_error", "commit_error"}, r \in BOOLEAN}
    \cup {NonQueryBehaviour("ok", n, TRUE) : n \in {0, 3}}

InitNonQuery ==
    /\ pc = "start"
    /\ request \in NonQueryCalls
    /\ response = NoResponse
    /\ call = NoCall
    /\ conns = <<>>
    /\ dbLog = <<>>
    /\ registry = MCP_TOOLS

CallExecuteNonQuery ==
    /\ pc = "start"
    /\ \E b \in NonQueryBehaviours :
        \E r \in {execute_non_query(request.query, <<>>, request.enable_write_ops,
                                    World(conns, <<>>), b)} :
            /\ call' = [tool |-> "execute_non_query", bound |-> TRUE, out |-> r.out]
            /\ conns' = r.w.conns
            /\ dbLog' = r.w.log
    /\ pc' = "non_query_done"
    /\ UNCHANGED <<request, response, registry>>

NextNonQuery == CallExecuteNonQuery

SpecNonQuery == InitNonQuery /\ [][NextNonQuery]_vars

----------------------------------------------------------------------------
(* What a call shows from outside.                                          *)

\* the query text as the caller passed it
Original == request.query.v

\* query_database_tool returned a result of a run: it reports the text it
\* handed to execute_query in its query field
ToolRan == pc = "tool_done" /\ call.out.ok /\ "success" \in DOMAIN call.out.val

SentQuery == call.out.val.query

\* the tool put a TOP clause in
Rewritten == ToolRan /\ SentQuery # Original

\* the statements that reached the database during the call
ExecutedTexts == {dbLog[i].text : i \in {j \in DOMAIN dbLog : dbLog[j].op = "execute"}}

\* the connections opened during the call
OpenedConns == {dbLog[i].conn : i \in {j \in DOMAIN dbLog : dbLog[j].op = "connect"}}

Min(a, b) == IF a < b THEN a ELSE b

\* text starts with SELECT TOP n or SELECT DISTINCT TOP n
TopClauseHas(text, n) ==
    \/ StartsWith(text, <<"S","E","L","E","C","T"," ","T","O","P"," ">> \o Str(n) \o <<" ">>)
    \/ StartsWith(text, <<"S","E","L","E","C","T"," ","D","I","S","T","I","N","C","T"," ","T","O","P"," ">>
                        \o Str(n) \o <<" ">>)

\* the limit the tool works with: the one given, 100 when none is given
GivenLimit == IF request.limit.t = "missing" THEN 100 ELSE request.limit.v

\* min(requestedLimit or 1000, 1000)
ClaimedLimit ==
    IF request.limit.t \in {"missing", "None"} THEN 1000
    ELSE IF request.limit.v = 0 THEN 1000
    ELSE Min(request.limit.v, 1000)

\* the first n characters of s
Take(s, n) == SubSeq(s, 1, n)

\* how many characters of q come before the end of its leading keyword
KeywordEnd(q) ==
    (CHOOSE i \in 1..Len(q) : q[i] \notin Whitespace /\ \A j \in 1..(i - 1) : q[j] \in Whitespace)
    - 1 + (IF StartsWith(Upper(Strip(q)), kSELECT_DISTINCT) THEN 15 ELSE 6)

\* a tools/call reached a registered handler (or the binding of its arguments)
ToolCalled == pc = "responded" /\ call.tool # "none"

\* the handler's result says the invocation failed
ReportsFailure ==
    /\ call.out.ok
    /\ \/ "success" \in DOMAIN call.out.val /\ ~call.out.val.success
       \/ "error" \in DOMAIN call.out.val

----------------------------------------------------------------------------
(* The claims.                                                              *)

\* C1: a query whose trimmed, upper-cased text does not start with SELECT
\* makes query_database_tool return the error "Only SELECT queries are
\* allowed ..." with the query echoed back, and during the call no
\* connection is opened and no statement is executed.
C1_NonSelectRejected ==
    (pc = "tool_done" /\ request.query.t = "str"
        /\ ~StartsWith(Upper(Strip(Original)), <<"S","E","L","E","C","T">>))
    => /\ call.out.ok
       /\ call.out.val = [error |-> "Only SELECT queries are allowed for security reasons",
                          query |-> Original]
       /\ conns = <<>>
       /\ dbLog = <<>>

\* "INSERT INTO t SELECT 1" was rejected
C1_Witness ==
    /\ pc = "tool_done"
    /\ request.query.t = "str"
    /\ Original = <<"I","N","S","E","R","T">> \o bIntoSelect
    /\ call.out.ok
    /\ "error" \in DOMAIN call.out.val

\* C2 (as amended): when query_database_tool rewrites a SELECT query, the
\* limit in the TOP clause is min(limit, 1000), limit being the one given and
\* 100 when none is given; it never exceeds 1000.
C2_InsertedLimit ==
    Rewritten => /\ TopClauseHas(SentQuery, Min(GivenLimit, 1000))
                 /\ \A n \in {1001, 5000} : ~TopClauseHas(SentQuery, n)

\* "SELECT DISTINCT x FROM t" without a limit got TOP 100
C2_Witness ==
    /\ Rewritten
    /\ request.limit.t = "missing"
    /\ Original = kSELECT_DISTINCT \o bXFromT
    /\ TopClauseHas(SentQuery, 100)

\* C2 (as stated): the limit in the TOP clause is min(requestedLimit or 1000,
\* 1000), so that a missing or zero limit gives TOP 1000.
C2_AsStated == Rewritten => TopClauseHas(SentQuery, ClaimedLimit)

\* C3 (as stated): query_database_tool hands a SELECT query to the database
\* unmodified exactly when its upper-cased text contains "TOP " or "LIMIT ";
\* every other SELECT query is sent with a TOP clause put in.
C3_AsStated ==
    (pc = "tool_done" /\ request.query.t = "str"
        /\ StartsWith(Upper(Strip(Original)), <<"S","E","L","E","C","T">>))
    => \A text \in ExecutedTexts :
        /\ (text = Original) <=> (\/ Contains(Upper(Original), <<"T","O","P"," ">>)
                                  \/ Contains(Upper(Original), <<"L","I","M","I","T"," ">>))
        /\ text # Original =>
                \/ StartsWith(text, <<"S","E","L","E","C","T"," ","T","O","P"," ">>)
                \/ StartsWith(text, <<"S","E","L","E","C","T"," ","D","I","S","T","I","N","C","T",
                                      " ","T","O","P"," ">>)

\* C4 (as amended): the rewritten text is the upper-case keyword SELECT (or
\* SELECT DISTINCT when the trimmed, upper-cased query starts with it), then
\* " TOP <limit> " with a space on both sides, then the trimmed query after
\* its first 6 (or 15) characters.
C4_RewrittenText ==
    Rewritten =>
        \E q \in {Strip(Original)} :
        \E k \in {IF StartsWith(Upper(q), kSELECT_DISTINCT) THEN 15 ELSE 6} :
            SentQuery = Take(Upper(q), k) \o <<" ","T","O","P"," ">>
                        \o Str(Min(GivenLimit, 1000)) \o <<" ">> \o Slice(q, k)

\* "SELECT * FROM t" with limit 10 became "SELECT TOP 10  * FROM t"
C4_Witness ==
    /\ Rewritten
    /\ Original = <<"S","E","L","E","C","T"," ","*"," ","F","R","O","M"," ","t">>
    /\ request.limit = PyInt(10)
    /\ SentQuery = <<"S","E","L","E","C","T"," ","T","O","P"," ","1","0"," ",
                     " ","*"," ","F","R","O","M"," ","t">>

\* C4 (as stated): the rewritten text is the original query with exactly
\* " TOP <limit>" put in right after the leading SELECT (or SELECT DISTINCT)
\* and nothing else added or removed.
C4_AsStated ==
    Rewritten =>
        SentQuery = Take(Original, KeywordEnd(Original))
                    \o <<" ","T","O","P"," ">> \o Str(Min(GivenLimit, 1000))
                    \o Slice(Original, KeywordEnd(Original))

\* a JSON-RPC response object: version, id, and either a result or an error
IsRpcResponse(r) ==
    /\ DOMAIN r \in {{"jsonrpc", "result", "id"}, {"jsonrpc", "error", "id"}}
    /\ r.jsonrpc = "2.0"

\* C5: whatever the request, mcp_handler returns a JSON-RPC response object
\* and raises nothing to the transport; when the handler raised, the response
\* is a result with isError true whose content text carries the error message.
C5_AlwaysResponds ==
    pc = "responded" =>
        /\ response.ok
        /\ IsRpcResponse(response.val)
        /\ (call.tool # "none" /\ ~call.out.ok) =>
                /\ "result" \in DOMAIN response.val
                /\ response.val.result.isError = TRUE
                /\ response.val.result.content =
                        <<[type |-> "text", text |-> [json |-> [error |-> <<call.out.val.msg>>]]]>>

\* a handler was called without its required argument, and the client got
\* a result with isError true
C5_Witness ==
    /\ ToolCalled
    /\ ~call.bound
    /\ ~call.out.ok
    /\ response.ok
    /\ "result" \in DOMAIN response.val
    /\ response.val.result.isError = TRUE

\* C6 (as amended): for a tools/call of a registered tool the response is a
\* JSON-RPC result whose isError is true exactly when the invocation raised
\* (the arguments did not bind, the handler raised, or its result could not be
\* encoded as JSON); a handler that returns normally, also with success =
\* false or with a gate rejection, is reported with isError false and its
\* result as the content text.
C6_IsErrorWhenRaised ==
    ToolCalled =>
        /\ response.ok
        /\ "result" \in DOMAIN response.val
        /\ response.val.result.isError = (~call.out.ok \/ ~JsonSerializable(call.out.val))
        /\ ~response.val.result.isError =>
                response.val.result.content = <<[type |-> "text", text |-> [json |-> call.out.val]]>>

\* a handler caught a database failure, returned success = false, and the
\* client got isError false
C6_Witness ==
    /\ ToolCalled
    /\ call.out.ok
    /\ "success" \in DOMAIN call.out.val
    /\ ~call.out.val.success
    /\ response.val.result.isError = FALSE

\* C6 (as stated): isError is true whenever the invocation failed, a
\* ToolResult with success = false and a gate rejection included, and false
\* whenever it succeeded.
C6_AsStated ==
    ToolCalled =>
        /\ response.ok
        /\ "result" \in DOMAIN response.val
        /\ (~call.out.ok \/ ReportsFailure) => response.val.result.isError = TRUE
        /\ (call.out.ok /\ ~ReportsFailure /\ JsonSerializable(call.out.val))
                => response.val.result.isError = FALSE

\* C7 (as stated): a handler invoked with arguments that bind to its
\* parameters returns a result and raises nothing past its own boundary.
C7_AsStated == (ToolCalled /\ call.bound) => call.out.ok

\* C8 (as stated): once the response is produced, every connection opened
\* during the call is closed.
C8_AsStated == pc = "responded" => \A id \in OpenedConns : conns[id] = "closed"

\* C9 (as stated): every result a handler returns can be encoded as JSON, so
\* the tools/call response of a handler that returned is never an encoding
\* failure.
C9_AsStated ==
    (ToolCalled /\ call.out.ok) =>
        /\ JsonSerializable(call.out.val)
        /\ response.val.result.isError = FALSE

\* the query is SELECT, a space, and a column name that begins with DISTINCT
\* and goes on
BeginsWithDistinctName ==
    /\ StartsWith(Upper(Strip(Original)), <<"S","E","L","E","C","T"," ","D","I","S","T","I","N","C","T">>)
    /\ Len(Strip(Original)) > 15
    /\ Strip(Original)[16] \notin Whitespace

\* C10 (as stated): for a query whose first column name begins with DISTINCT
\* (SELECT DISTINCTIVE FROM t), query_database_tool and execute_select_query
\* put the TOP clause right after SELECT and leave the column name intact.
C10_AsStated ==
    (pc \in {"tool_done", "executor_done"} /\ request.query.t = "str" /\ BeginsWithDistinctName)
    => \A text \in ExecutedTexts :
        /\ StartsWith(text, <<"S","E","L","E","C","T"," ","T","O","P"," ">>)
        /\ Contains(text, Slice(Strip(Original), 7))

\* the method of the request, None when it has none
Method == IF request.t = "dict" THEN Get(request, "method", PyNone) ELSE PyNone

\* C11: every response of mcp_handler has the jsonrpc field and exactly one
\* of result and error: a result for tools/list, initialize and a tools/call
\* that reached a tool, an error for an unknown tool, an unknown method and
\* a malformed request.
C11_ResultXorError ==
    pc = "responded" =>
        /\ response.ok
        /\ "jsonrpc" \in DOMAIN response.val
        /\ ("result" \in DOMAIN response.val) # ("error" \in DOMAIN response.val)
        /\ (Method \in {S("tools/list"), S("initialize")} \/ call.tool # "none")
                => "result" \in DOMAIN response.val
        /\ (Method \notin {S("tools/list"), S("initialize")} /\ call.tool = "none")
                => "error" \in DOMAIN response.val

\* a request that is not a mapping was answered with an error and no result
C11_Witness ==
    /\ pc = "responded"
    /\ request.t # "dict"
    /\ "error" \in DOMAIN response.val
    /\ "result" \notin DOMAIN response.val

\* C12: the id of every response is the id of its request, and 1 when the
\* request has no id or is not a mapping.
C12_IdEchoed ==
    pc = "responded" =>
        /\ response.ok
        /\ "id" \in DOMAIN response.val
        /\ response.val.id = IF request.t = "dict" /\ \E i \in DOMAIN request.v : request.v[i][1] = "id"
                             THEN request.v[CHOOSE i \in DOMAIN request.v : request.v[i][1] = "id"][2]
                             ELSE [t |-> "int", v |-> 1]

\* a tools/call with id 7 whose params is not a mapping was answered with an
\* error that carries id 7
C12_Witness ==
    /\ pc = "responded"
    /\ request.t = "dict"
    /\ Get(request, "id", PyNone) = PyInt(7)
    /\ Method = S("tools/call")
    /\ Get(request, "params", PyDict(<<>>)).t # "dict"
    /\ "error" \in DOMAIN response.val
    /\ response.val.id = PyInt(7)

\* the request is a tools/call whose params is a mapping
IsToolsCall == request.t = "dict" /\ Method = S("tools/call") /\ Get(request, "params", PyDict(<<>>)).t = "dict"

\* params.get("name")
NameGiven == Get(Get(request, "params", PyDict(<<>>)), "name", PyNone)

\* the name is one of the five registered
NameRegistered ==
    NameGiven.t = "str"
    /\ NameGiven.v \in {<<"query_database">>, <<"list_tables">>, <<"describe_table">>,
                        <<"get_database_info">>, <<"execute_stored_procedure">>}

\* the response is the error "Tool '<name>' not found" with code -1, and
\* neither a handler nor the database was reached
ToolNotFoundAnswer ==
    /\ response.ok
    /\ "error" \in DOMAIN response.val
    /\ response.val.error.code = -1
    /\ response.val.error.message = <<"Tool '">> \o Text(NameGiven) \o <<"' not found">>
    /\ call = [tool |-> "none"]
    /\ dbLog = <<>>

\* C13 (as amended): a tools/call whose params.name is a string, a number or
\* null (also a missing name) and not a key of the registry is answered with
\* the envelope error -1 "Tool '<name>' not found"; no handler is invoked
\* and no connection is opened.
C13_ToolNotFound ==
    (pc = "responded" /\ IsToolsCall /\ ~NameRegistered /\ NameGiven.t \notin {"list", "dict"})
        => ToolNotFoundAnswer

\* a tools/call of drop_table was answered with "Tool 'drop_table' not found"
C13_Witness ==
    /\ pc = "responded"
    /\ IsToolsCall
    /\ NameGiven = S("drop_table")
    /\ response.val.error.message = <<"Tool '", "drop_table", "' not found">>

\* C13 (as stated): every tools/call whose params.name is not a key of the
\* registry is answered with the envelope error -1 "Tool '<name>' not found".
C13_AsStated == (pc = "responded" /\ IsToolsCall /\ ~NameRegistered) => ToolNotFoundAnswer

\* params.get("arguments", {}) of a tools/call
ArgumentsGiven == Get(Get(request, "params", PyDict(<<>>)), "arguments", PyDict(<<>>))

\* the procedure's parameters as a list of <<key, value>>: none when the
\* argument is missing, None or an empty mapping
ProcedureItems ==
    IF Get(ArgumentsGiven, "parameters", PyNone).t = "dict"
    THEN Get(ArgumentsGiven, "parameters", PyNone).v
    ELSE <<>>

\* the k-th smallest member of a set of numbers
Kth(set, k) == CHOOSE i \in set : Cardinality({j \in set : j < i}) = k - 1

\* ev is the execution of "EXEC <name>" with one "@key = ?" per item, in the
\* items' order, and the items' values bound in that order
IsExecOf(ev, name, items) ==
    /\ ev.op = "execute"
    /\ StartsWith(ev.text, <<"E","X","E","C"," ">> \o Text(name))
    /\ Cardinality({i \in DOMAIN ev.text : ev.text[i] = "@"}) = Len(items)
    /\ Cardinality({i \in DOMAIN ev.text : ev.text[i] = "?"}) = Len(items)
    /\ Len(ev.params) = Len(items)
    /\ \A k \in DOMAIN items :
        /\ ev.text[Kth({i \in DOMAIN ev.text : ev.text[i] = "@"}, k) + 1] = items[k][1]
        /\ ev.text[Kth({i \in DOMAIN ev.text : ev.text[i] = "?"}, k) - 4] = items[k][1]
        /\ ev.params[k] = items[k][2]

\* execute_stored_procedure was invoked with a procedure name and with
\* parameters that are a mapping, None or left out
ProcedureCalled ==
    /\ ToolCalled
    /\ call.tool = "execute_stored_procedure"
    /\ call.bound
    /\ Get(ArgumentsGiven, "parameters", PyNone).t \in {"dict", "None"}

\* C14: execute_stored_procedure is never stopped by a SELECT-only or
\* write-operations test: whatever the procedure name and parameters, once
\* the connection is open the statement "EXEC <procedure_name> ..." is
\* executed, with one "@key = ?" per parameter in the mapping's order and the
\* values bound in that order; the only result without an execution is a
\* failed connection.
C14_ProcedureAlwaysSent ==
    ProcedureCalled =>
        /\ call.out.ok
        /\ "success" \in DOMAIN call.out.val
        /\ dbLog = <<>> => call.out.val.error = <<"Database connection failed">>
        /\ dbLog # <<>> =>
            /\ Cardinality({i \in DOMAIN dbLog : dbLog[i].op = "execute"}) = 1
            /\ IsExecOf(dbLog[2], Item(ArgumentsGiven, "procedure_name"), ProcedureItems)

\* EXEC p @b = ?, @a = ? was executed with the values "x" and 1
C14_Witness ==
    /\ ProcedureCalled
    /\ ProcedureItems = << <<"b", S("x")>>, <<"a", PyInt(1)>> >>
    /\ Len(dbLog) > 1
    /\ dbLog[2].text = <<"E","X","E","C"," ","p"," ","@","b"," ","="," ","?",","," ","@","a"," ","="," ","?">>
    /\ dbLog[2].params = <<S("x"), PyInt(1)>>

\* the names of the five tools, in the order MCP_TOOLS is written
FiveTools ==
    <<"query_database", "list_tables", "describe_table", "get_database_info",
      "execute_stored_procedure">>

\* C15: no request changes the tool registry: whatever requests were served
\* before, the registry is as it was built, and a tools/list returns the
\* five tools in the same order with the name, description and inputSchema
\* they were registered with, so any two tools/list results are identical.
C15_RegistryReadOnly ==
    /\ registry = MCP_TOOLS
    /\ (pc = "responded" /\ Method = S("tools/list")) =>
        /\ response.ok
        /\ DOMAIN response.val.result = {"tools"}
        /\ [i \in DOMAIN response.val.result.tools |-> response.val.result.tools[i].name] = FiveTools
        /\ \A i \in DOMAIN response.val.result.tools :
                response.val.result.tools[i] =
                    [name |-> MCP_TOOLS[i].name, description |-> MCP_TOOLS[i].description,
                     inputSchema |-> MCP_TOOLS[i].parameters]

\* a tools/list was answered after tool calls that had opened two connections
C15_Witness ==
    /\ pc = "responded"
    /\ Method = S("tools/list")
    /\ Len(conns) >= 2
    /\ Len(response.val.result.tools) = 5

\* C16 (as stated): when execute_select_query rewrites a query, the text it
\* sends is SELECT (or SELECT DISTINCT), the TOP clause, and then the original
\* text that followed the leading keyword, whole and unchanged: nothing after
\* the keyword is dropped and no character of the keyword is repeated, also
\* for a query with leading or trailing whitespace or a lower-case keyword.
C16_AsStated ==
    (pc = "executor_done" /\ request.query.t = "str")
    => \A text \in ExecutedTexts :
        text # Original =>
            text = (IF StartsWith(Upper(Strip(Original)), kSELECT_DISTINCT)
                    THEN <<"S","E","L","E","C","T"," ","D","I","S","T","I","N","C","T">>
                    ELSE <<"S","E","L","E","C","T">>)
                   \o <<" ","T","O","P"," ">> \o Str(ClaimedLimit) \o <<" ">>
                   \o Slice(Original, KeywordEnd(Original))

\* what was done to the database during the call, in order
Ops == [i \in DOMAIN dbLog |-> dbLog[i].op]

NonQueryDone == pc = "non_query_done"

\* the statement is text that starts, once trimmed and upper-cased, with
\* INSERT, UPDATE, DELETE, EXEC or EXECUTE
StatementAllowed ==
    /\ request.query.t = "str"
    /\ \E op \in {<<"I","N","S","E","R","T">>, <<"U","P","D","A","T","E">>,
                  <<"D","E","L","E","T","E">>, <<"E","X","E","C">>} :
            StartsWith(Upper(Strip(request.query.v)), op)

\* (1) raised before any connection was opened
RaisedBeforeConnecting == ~call.out.ok /\ dbLog = <<>> /\ conns = <<>>

\* (2) executed and committed, the row count returned, the connection closed
Committed ==
    /\ call.out.ok
    /\ call.out.val.t = "int"
    /\ Ops = <<"connect", "execute", "commit", "close">>
    /\ conns = <<"closed">>

\* (3) failed, rolled back, the error raised again, the connection closed
RolledBack ==
    /\ ~call.out.ok
    /\ call.out.val.msg \in {"statement failed", "commit failed"}
    /\ Ops = <<"connect", "execute", "rollback", "close">>
    /\ conns = <<"closed">>

\* the execution or the commit failed and so did the rollback: the
\* rollback's error is raised, and the connection is closed with the
\* statement neither committed nor rolled back
RollbackFailed ==
    /\ ~call.out.ok
    /\ call.out.val.msg = "rollback failed"
    /\ Ops = <<"connect", "execute", "close">>
    /\ conns = <<"closed">>

\* the connection could not be opened, or gave no cursor: the error is
\* raised, nothing was executed, and a connection that was opened is closed
FailedBeforeExecuting ==
    /\ ~call.out.ok
    /\ \/ Ops = <<>> /\ conns = <<>>
       \/ Ops = <<"connect", "close">> /\ conns = <<"closed">>

\* C17 (as amended): a call of execute_non_query ends in exactly one of these
\* ways: (1) write operations disabled, or a query that is not text or does
\* not start with INSERT/UPDATE/DELETE/EXEC/EXECUTE: it raises before any
\* connection is opened; (2) the statement is executed and committed and
\* the row count returned; (3) execution or commit fails: the connection is
\* rolled back and the error raised again, or, when the rollback fails too,
\* the rollback's error is raised; (4) the connection cannot be opened or
\* gives no cursor: the error is raised and nothing is executed.  Every
\* connection that was opened is closed, after the commit or rollback if
\* there was one.
C17_NonQueryOutcomes ==
    NonQueryDone =>
        /\ (~request.enable_write_ops \/ ~StatementAllowed) => RaisedBeforeConnecting
        /\ (request.enable_write_ops /\ StatementAllowed) =>
                /\ Committed \/ RolledBack \/ RollbackFailed \/ FailedBeforeExecuting
                /\ Cardinality({w \in {1, 2, 3, 4} :
                        \/ w = 1 /\ Committed
                        \/ w = 2 /\ RolledBack
                        \/ w = 3 /\ RollbackFailed
                        \/ w = 4 /\ FailedBeforeExecuting}) = 1
        /\ \A id \in DOMAIN conns : conns[id] = "closed"
        /\ \A i \in DOMAIN Ops : Ops[i] \in {"commit", "rollback"} => Ops[Len(Ops)] = "close" /\ i < Len(Ops)

\* an UPDATE whose commit failed was rolled back, and the connection closed
C17_Witness ==
    /\ NonQueryDone
    /\ request.enable_write_ops
    /\ request.query = PyStr(<<"u","p","d","a","t","e"," ","t">>)
    /\ RolledBack
    /\ call.out.val.msg = "commit failed"

\* C17 (as stated): a call of execute_non_query ends in exactly one of three
\* ways: raised before connecting (write operations disabled or statement
\* not allowed), committed with the row count returned, or rolled back with
\* the error raised again; an executed statement is always committed or
\* rolled back, and the connection is closed after that.
C17_AsStated ==
    NonQueryDone =>
        /\ \/ (~request.enable_write_ops \/ ~StatementAllowed) /\ RaisedBeforeConnecting
           \/ (request.enable_write_ops /\ StatementAllowed) /\ (Committed \/ RolledBack)
        /\ "execute" \in {Ops[i] : i \in DOMAIN Ops} =>
                \E i \in DOMAIN Ops : Ops[i] \in {"commit", "rollback"}
        /\ \A id \in DOMAIN conns : conns[id] = "closed"

====
